---------------------------- MODULE Spec2Model ----------------------------
(* A model of the crawler (crawler.py) and of the keyword watch engine     *)
(* (scooper.py): the crawl of the configured sites with the dead-site      *)
(* ledger, per-page versioning and the run-complete flag (Spec, SpecLong), *)
(* the watch loop with its searches and the results store (SpecWatch), and *)
(* the writes of the files the two processes share (SpecFiles).            *)
EXTENDS Integers, Sequences, FiniteSets, TLC

(***************************************************************************)
(* Bounds of the model.                                                    *)
(***************************************************************************)
\* the clock (utc_now) runs over 0..MaxTime
MaxTime == 2
\* number of crawl cycles (iterations of main_loop's while, over all runs)
MaxCycles == 2
\* number of documents written to the shared files
MaxWrites == 3
\* fetch_url is called with attempts in 1..MaxAttempts
MaxAttempts == 3
\* a response body has up to MaxBody bytes; read_chunk and max_bytes are in 1..MaxBody
MaxBody == 4
\* find_snippets is called on texts of up to MaxLen characters
MaxLen == 6
\* and with a window (chars) in 0..MaxWindow
MaxWindow == 2
\* two crawler processes mark sites dead up to MaxMarks times
MaxMarks == 2

(***************************************************************************)
(* The configuration: sites.yaml and the pages the sites serve.            *)
(***************************************************************************)
\* two sites.yaml files: two sites of which the second has anchors, and one
\* site whose pages go deeper than its max_depth
TwoSites == <<"B", "A">>
DeepSite == <<"D">>


\* one entry of sites.yaml; retry (retry_hours) and polite are in clock ticks
SiteConf(s) ==
    IF s = "A"
    THEN [url |-> "a0", max_pages |-> 3, max_depth |-> 2, max_failures |-> 2,
          retry |-> 2, max_versions |-> 2, polite |-> <<0, 0>>]
    ELSE IF s = "D"
    THEN [url |-> "d0", max_pages |-> 2, max_depth |-> 1, max_failures |-> 1,
          retry |-> 1, max_versions |-> 1, polite |-> <<0, 0>>]
    ELSE [url |-> "b0", max_pages |-> 2, max_depth |-> 1, max_failures |-> 1,
          retry |-> 1, max_versions |-> 1, polite |-> <<0, 1>>]

\* the URLs of each site; "a1#f" is an anchor of page a1
SiteUrls(s) ==
    CASE s = "A" -> {"a0", "a1", "a1#f"}
      [] s = "D" -> {"d0", "d1", "d2", "d.zip"}
      [] OTHER -> {"b0", "b.zip"}

\* the same-host links of the page a URL serves (after urljoin)
PageLinks(u) ==
    CASE u = "a0" -> {"a1", "a1#f"}
      [] u = "a1" -> {"a1#f", "a0"}
      [] u = "b0" -> {"b.zip"}
      [] u = "d0" -> {"d1", "d.zip"}
      [] u = "d1" -> {"d2", "d0"}
      [] OTHER -> {}

\* the same links in the order of their first <a href> in the page
FirstOccurrence(u) ==
    CASE u = "a0" -> <<"a1", "a1#f">>
      [] u = "a1" -> <<"a1#f", "a0">>
      [] u = "b0" -> <<"b.zip">>
      [] u = "d0" -> <<"d1", "d.zip">>
      [] u = "d1" -> <<"d2", "d0">>
      [] OTHER -> <<>>

\* Path(path).suffix.lower() in SKIP_EXT
IsSkipExt(u) == u \in {"b.zip", "d.zip"}

\* normalize_url_for_filename: urldefrag drops the fragment
NormalizeUrl(u) == IF u = "a1#f" THEN "a1" ELSE u

\* safe_filename_from_url: utc_ts() and the sha1 prefix of the normalized URL
\* (the hash is taken as injective on the few URLs of the model)
SafeFilename(t, norm) == <<t, norm>>

(***************************************************************************)
(* The state.                                                              *)
(***************************************************************************)
VARIABLES
    now,        \* the wall clock, in ticks
    pc,         \* where the crawler process is
    idx,        \* main_loop: index of the next site of the for loop
    cycles,     \* number of cycles started so far
    cycleLimit, \* number of cycles the run may start
    sitesFile,  \* sites.yaml: the enabled sites, in order
    deadlist,   \* main_loop: the ledger in memory
    deadFile,   \* dead_sites.json
    meta,       \* crawl_site: the metadata of the site being crawled
    metaFile,   \* Source/<site>/metadata.json, per site
    store,      \* the snapshot files of Source/<site>/, per site
    to_visit,   \* crawl_site: the frontier
    visited,    \* crawl_site
    pages_fetched,
    consecutive_failures,
    flagFile,   \* run_complete.flag: its modification time, or NoFile
    removed_files, \* crawl_site, line 381: what the last save pruned
    ev,         \* the last operation that ran (the line the crawler prints)
    \* history variables: what has happened, for the properties below
    errRun,     \* per site: the terminal fetch errors in a row of the crawl
                \* under way, or of the crawl that ended with marking it dead
    downRun,    \* per site: its failed fetches in a row, over the crawls of
                \* this process, since it last answered or was marked dead
    liveAtStart, \* the sites whose entry was in force when the cycle started
    \* scooper.py, watch_loop
    wpc,        \* the position of the watch process
    kwFile,     \* keywords.txt: its lines
    corpus,     \* the corpus index: the snapshot files and the keywords in them
    last_keywords_set,
    last_run_ts,
    results,    \* results.json, as load_results_file reads it
    searches,   \* history variable: the searches the last step ran
    \* the bytes of the shared files while they are written
    disk,       \* per path: whether the file exists and its text so far
    wr,         \* per process: the write under way
    ver,        \* number of documents written so far
    \* the functions and the processes that are followed on their own
    fetch,      \* crawler.py: one call of fetch_url, its arguments and locals
    snip,       \* scooper.py: one call of find_snippets
    deadFlag,   \* the dead flag of a hit (scooper.py) against is_site_dead
    procs,      \* two crawler processes that share dead_sites.json
    saving      \* crawler.py: the save of a page, statement by statement

progVars == <<now, pc, idx, cycles, cycleLimit, sitesFile, deadlist, deadFile, meta, metaFile,
              store, to_visit, visited, pages_fetched, consecutive_failures,
              flagFile, removed_files, ev>>

histVars == <<errRun, downRun, liveAtStart>>

watchVars == <<wpc, kwFile, corpus, last_keywords_set, last_run_ts, results, searches>>

fileVars == <<disk, wr, ver>>

unitVars == <<fetch, snip, deadFlag, procs, saving>>

vars == <<progVars, histVars, watchVars, fileVars, unitVars>>

\* what no step of the crawler changes
Rest == <<cycleLimit, sitesFile, watchVars, fileVars, unitVars>>

NoFile == -1

\* load_sites: the enabled sites, in the order of sites.yaml
Sites == sitesFile

SiteSet == {Sites[i] : i \in 1..Len(Sites)}

Urls == UNION {SiteUrls(s) : s \in SiteSet}

\* datetime.isoformat and datetime.fromisoformat
IsoFormat(t) == <<"iso", t>>
FromIsoFormat(x) == x[2]

(***************************************************************************)
(* The dead-site ledger.                                                   *)
(***************************************************************************)
\* load_deadlist: until is converted back to a datetime
LoadDeadlist(file) ==
    [k \in DOMAIN file |->
        [marked_at |-> file[k].marked_at, until |-> FromIsoFormat(file[k].until)]]

\* save_deadlist: datetimes are written in iso format
SerialDeadlist(d) ==
    [k \in DOMAIN d |->
        [marked_at |-> d[k].marked_at, until |-> IsoFormat(d[k].until)]]

Drop(f, k) == [x \in DOMAIN f \ {k} |-> f[x]]
Put(f, k, v) == [x \in DOMAIN f \cup {k} |-> IF x = k THEN v ELSE f[x]]

\* an entry whose until time is now still counts as dead
StillDeadInclusive(t, until) == t <= until

\* is_site_dead, line 235: the entry is still in force
StillDead(t, until) == t < until

\* is_site_dead: the result, the ledger afterwards and whether it was saved
IsSiteDead(d, key, t) ==
    IF key \notin DOMAIN d
    THEN [dead |-> FALSE, list |-> d, saved |-> FALSE]
    ELSE IF StillDead(t, d[key].until)
         THEN [dead |-> TRUE, list |-> d, saved |-> FALSE]
         ELSE [dead |-> FALSE, list |-> Drop(d, key), saved |-> TRUE]

\* mark_site_dead: the ledger afterwards (it is saved)
MarkSiteDead(d, key, t, retry) ==
    Put(d, key, [marked_at |-> IsoFormat(t), until |-> t + retry])

(***************************************************************************)
(* Page records and pruning.                                               *)
(***************************************************************************)
\* A page record holds the snapshot list and the archived flag. The fields the
\* code only writes (last_error, content_hash, status_code, content_type,
\* last_seen_at) are left out, and a page without a record is the same as one
\* with the record setdefault(url, {}) creates: no files, not archived.
EmptyRec == [files |-> <<>>, archived |-> FALSE]

\* load_metadata: {"pages": {}} when there is no metadata file
NoMetadata == [u \in Urls |-> EmptyRec]

\* files.pop(0): the newest snapshot is dropped instead of the oldest
RECURSIVE PopNewest(_, _, _, _)
PopNewest(files, dir, removed, max) ==
    IF Len(files) > max
    THEN LET fname == files[1]
         IN  PopNewest(Tail(files), dir \ {fname},
                       IF fname \in dir THEN Append(removed, fname) ELSE removed, max)
    ELSE [files |-> files, dir |-> dir, removed |-> removed]

\* prune_old_versions, lines 265-273: pop the oldest while too many are listed;
\* the unlink of a file that exists is taken to succeed
RECURSIVE PopOldest(_, _, _, _)
PopOldest(files, dir, removed, max) ==
    IF Len(files) > max
    THEN LET fname == files[Len(files)]
         IN  PopOldest(SubSeq(files, 1, Len(files) - 1), dir \ {fname},
                       IF fname \in dir THEN Append(removed, fname) ELSE removed, max)
    ELSE [files |-> files, dir |-> dir, removed |-> removed]

\* prune_old_versions: the page record and the site directory afterwards
PruneOldVersions(rec, dir, max) ==
    IF rec.archived
    THEN [rec |-> rec, dir |-> dir, removed |-> <<>>]
    ELSE LET p == PopOldest(rec.files, dir, <<>>, max)
         IN  [rec |-> [rec EXCEPT !.files = p.files], dir |-> p.dir, removed |-> p.removed]

\* crawl_site, lines 371-381: the record of a saved page, then pruned
SavedPage(rec, fname, dir, max) ==
    PruneOldVersions([rec EXCEPT !.files = <<fname>> \o @,
                                 !.archived = FALSE], dir, max)

\* the threshold has to be exceeded
ExceededThreshold(failures, max_failures) == failures > max_failures

\* one failure is enough
AnyFailure(failures, max_failures) == failures >= 1

\* crawl_site, lines 328 and 350
ReachedThreshold(failures, max_failures) == failures >= max_failures

\* the links of a page at the depth limit are followed too
FollowAtLimit(depth, max_depth) == depth <= max_depth

\* crawl_site, line 390: links are followed below the depth limit only
MayFollowLinks(depth, max_depth) == depth < max_depth

\* the orders in which a Python set of links can be iterated
Orders(S) == {f \in [1..Cardinality(S) -> S] : \A x \in S : \E i \in DOMAIN f : f[i] = x}

\* crawl_site, lines 404-406: the links appended to the frontier
Enqueue(order, seen, depth) ==
    LET pairs == [i \in DOMAIN order |-> <<order[i], depth + 1>>]
    IN  SelectSeq(pairs, LAMBDA p : p[1] \notin seen)


(***************************************************************************)
(* The crawler process.                                                    *)
(***************************************************************************)
Range(f) == {f[i] : i \in DOMAIN f}

CrawlInit ==
    /\ now = 0
    /\ pc = "boot"
    /\ idx = 1
    /\ cycles = 0
    /\ deadlist = <<>>
    /\ deadFile = <<>>
    /\ meta = NoMetadata
    /\ metaFile = [s \in SiteSet |-> NoMetadata]
    /\ store = [s \in SiteSet |-> {}]
    /\ to_visit = <<>>
    /\ visited = {}
    /\ pages_fetched = 0
    /\ consecutive_failures = 0
    /\ flagFile = NoFile
    /\ ev = "init"
    /\ removed_files = <<>>
    /\ errRun = [s \in SiteSet |-> 0]
    /\ downRun = [s \in SiteSet |-> 0]
    /\ liveAtStart = {}

Locals == <<meta, to_visit, visited, pages_fetched, consecutive_failures, removed_files>>
Disk == <<metaFile, store>>
Ledger == <<deadlist, deadFile>>

\* crawl_site has returned: its locals are gone and the for loop goes on
LeaveSite ==
    /\ idx' = idx + 1
    /\ pc' = "site"
    /\ meta' = NoMetadata
    /\ to_visit' = <<>>
    /\ visited' = {}
    /\ pages_fetched' = 0
    /\ consecutive_failures' = 0
    /\ removed_files' = <<>>

\* the process is gone: so are main_loop's and crawl_site's variables
ProcessGone ==
    /\ pc' = "exited"
    /\ deadlist' = <<>>
    /\ idx' = 1
    /\ meta' = NoMetadata
    /\ to_visit' = <<>>
    /\ visited' = {}
    /\ pages_fetched' = 0
    /\ consecutive_failures' = 0
    /\ removed_files' = <<>>

\* the crawl of site s has ended without marking it dead
ForgetRun(s) == errRun' = [errRun EXCEPT ![s] = 0]

\* main_loop, lines 445-446
Boot ==
    /\ pc = "boot"
    /\ deadlist' = LoadDeadlist(deadFile)
    /\ pc' = "cycle"
    /\ ev' = "boot"
    /\ UNCHANGED <<now, idx, cycles, Rest, deadFile, flagFile, Locals, Disk>>
    /\ UNCHANGED histVars

\* main_loop, lines 448-455: load_sites and the start of the for loop
StartCycle ==
    /\ pc = "cycle"
    /\ cycles < cycleLimit
    /\ cycles' = cycles + 1
    /\ idx' = 1
    /\ pc' = "site"
    /\ ev' = "cycle"
    /\ liveAtStart' = {s \in DOMAIN deadlist : now < deadlist[s].until}
    /\ UNCHANGED <<now, Rest, Ledger, flagFile, Locals, Disk>>
    /\ UNCHANGED <<errRun, downRun>>

\* the crawl starts from empty metadata
FreshMetadata(s) == NoMetadata

\* load_metadata, lines 109-116: the metadata file of the site
LoadMetadata(s) == metaFile[s]

\* crawl_site, lines 281-306: the dead check and the start of the crawl
EnterSite ==
    /\ pc = "site"
    /\ idx <= Len(Sites)
    /\ LET s == Sites[idx]
           r == IsSiteDead(deadlist, s, now)
       IN  /\ deadlist' = r.list
           /\ deadFile' = IF r.saved THEN SerialDeadlist(r.list) ELSE deadFile
           /\ IF r.dead
              THEN /\ LeaveSite
                   /\ ev' = "skip_dead"
                   /\ UNCHANGED errRun
              ELSE /\ pc' = "crawl"
                   /\ meta' = LoadMetadata(s)
                   /\ to_visit' = <<(<<SiteConf(s).url, 0>>)>>
                   /\ visited' = {}
                   /\ pages_fetched' = 0
                   /\ consecutive_failures' = 0
                   /\ removed_files' = <<>>
                   /\ ev' = IF r.saved THEN "expired" ELSE "begin"
                   /\ errRun' = [errRun EXCEPT ![s] = 0]
                   /\ UNCHANGED idx
    /\ UNCHANGED <<now, cycles, Rest, flagFile, Disk>>
    /\ UNCHANGED <<downRun, liveAtStart>>

\* the loop goes on while the frontier has entries, whatever was fetched
IgnoresBudget(frontier, fetched, max_pages) == frontier # <<>>

\* crawl_site, line 308: while to_visit and pages_fetched < max_pages
LoopGoesOn(frontier, fetched, max_pages) == frontier # <<>> /\ fetched < max_pages

\* crawl_site, line 308: the loop ends and crawl_site returns
CrawlDone ==
    /\ pc = "crawl"
    /\ ~LoopGoesOn(to_visit, pages_fetched, SiteConf(Sites[idx]).max_pages)
    /\ LeaveSite
    /\ ev' = "done"
    /\ ForgetRun(Sites[idx])
    /\ UNCHANGED <<now, cycles, Rest, Ledger, flagFile, Disk>>
    /\ UNCHANGED <<downRun, liveAtStart>>

\* crawl_site, lines 309-318: a URL already visited, or one with a skipped extension
SkipUrl ==
    /\ pc = "crawl"
    /\ LoopGoesOn(to_visit, pages_fetched, SiteConf(Sites[idx]).max_pages)
    /\ LET url == Head(to_visit)[1]
       IN  /\ to_visit' = Tail(to_visit)
           /\ \/ /\ url \in visited
                 /\ ev' = "skip_visited"
                 /\ UNCHANGED visited
              \/ /\ url \notin visited
                 /\ IsSkipExt(url)
                 /\ visited' = visited \cup {url}
                 /\ ev' = "skip_ext"
    /\ UNCHANGED <<now, pc, idx, cycles, Rest, Ledger, flagFile, meta,
                   pages_fetched, consecutive_failures, removed_files, Disk>>
    /\ UNCHANGED histVars

\* crawl_site: the URL at the head of the frontier is to be fetched
Fetching(url) ==
    /\ pc = "crawl"
    /\ LoopGoesOn(to_visit, pages_fetched, SiteConf(Sites[idx]).max_pages)
    /\ url = Head(to_visit)[1]
    /\ url \notin visited
    /\ ~IsSkipExt(url)

\* crawl_site, line 320: the politeness sleep, random.uniform(*polite) ticks
\* (the fetch itself takes less than a tick)
Elapse(s) ==
    \E dt \in SiteConf(s).polite[1]..SiteConf(s).polite[2] :
        now + dt <= MaxTime /\ now' = now + dt

\* crawl_site, lines 325-332 and 349-354: one more failure; at the threshold the
\* site is marked dead and crawl_site returns
CountFailure(s, url) ==
    LET n == consecutive_failures + 1
    IN  IF ReachedThreshold(n, SiteConf(s).max_failures)
        THEN /\ deadlist' = MarkSiteDead(deadlist, s, now', SiteConf(s).retry)
             /\ deadFile' = SerialDeadlist(deadlist')
             /\ LeaveSite
             /\ ev' = "marked_dead"
        ELSE /\ consecutive_failures' = n
             /\ to_visit' = Tail(to_visit)
             /\ visited' = visited \cup {url}
             /\ meta' = metaFile'[s]
             /\ removed_files' = <<>>
             /\ ev' = "failed"
             /\ UNCHANGED <<Ledger, idx, pc, pages_fetched>>

\* an archive code ends the run of failures, as a stored page does
ArchivedAsSuccess(s, url) ==
    /\ consecutive_failures' = 0
    /\ to_visit' = Tail(to_visit)
    /\ visited' = visited \cup {url}
    /\ meta' = metaFile'[s]
    /\ removed_files' = <<>>
    /\ ev' = "failed"
    /\ UNCHANGED <<Ledger, idx, pc, pages_fetched>>

\* crawl_site, lines 349-354: an archive code counts as a failure
CountArchived(s, url) == CountFailure(s, url)

\* crawl_site, lines 321-332: fetch_url raised after its last attempt
FetchError ==
    \E url \in Urls :
        /\ Fetching(url)
        /\ Elapse(Sites[idx])
        /\ LET s == Sites[idx]
           IN  /\ metaFile' = [metaFile EXCEPT ![s] = meta]
               /\ CountFailure(s, url)
               /\ errRun' = [errRun EXCEPT ![s] = @ + 1]
               /\ downRun' = [downRun EXCEPT ![s] =
                      IF pc' # "crawl" THEN 0 ELSE @ + 1]
        /\ UNCHANGED <<cycles, Rest, flagFile, store, liveAtStart>>

\* crawl_site, lines 341-354: the response has an archive status code
FetchArchived ==
    \E url \in Urls :
        /\ Fetching(url)
        /\ Elapse(Sites[idx])
        /\ LET s == Sites[idx]
           IN  /\ metaFile' = [metaFile EXCEPT ![s] =
                      [meta EXCEPT ![url].archived = TRUE]]
               /\ CountArchived(s, url)
               /\ errRun' = [errRun EXCEPT ![s] = 0]
               /\ downRun' = [downRun EXCEPT ![s] = 0]
        /\ UNCHANGED <<cycles, Rest, flagFile, store, liveAtStart>>

\* crawl_site, lines 356-369: a normal response whose snapshot cannot be written
FetchWriteError ==
    \E url \in Urls :
        /\ Fetching(url)
        /\ Elapse(Sites[idx])
        /\ LET s == Sites[idx]
           IN  /\ meta' = meta
               /\ metaFile' = [metaFile EXCEPT ![s] = meta']
               /\ errRun' = [errRun EXCEPT ![s] = 0]
               /\ downRun' = [downRun EXCEPT ![s] = 0]
        /\ ev' = "write_error"
        /\ consecutive_failures' = 0
        /\ removed_files' = <<>>
        /\ to_visit' = Tail(to_visit)
        /\ visited' = visited \cup {url}
        /\ UNCHANGED <<pc, idx, cycles, Rest, Ledger, flagFile, store, pages_fetched>>
        /\ UNCHANGED liveAtStart

\* crawl_site, lines 356-406: a normal response is saved, pruned and its links enqueued
FetchSaved ==
    \E url \in Urls :
        /\ Fetching(url)
        /\ Elapse(Sites[idx])
        /\ LET s == Sites[idx]
               depth == Head(to_visit)[2]
               fname == SafeFilename(now', NormalizeUrl(url))
               p == SavedPage(meta[url], fname, store[s] \cup {fname},
                              SiteConf(s).max_versions)
           IN  /\ meta' = [meta EXCEPT ![url] = p.rec]
               /\ metaFile' = [metaFile EXCEPT ![s] = meta']
               /\ store' = [store EXCEPT ![s] = p.dir]
               /\ removed_files' = p.removed
               /\ visited' = visited \cup {url}
               /\ IF MayFollowLinks(depth, SiteConf(s).max_depth)
                  THEN \E order \in Orders(PageLinks(url)) :
                          to_visit' = Tail(to_visit) \o Enqueue(order, visited', depth)
                  ELSE to_visit' = Tail(to_visit)
               /\ errRun' = [errRun EXCEPT ![s] = 0]
               /\ downRun' = [downRun EXCEPT ![s] = 0]
        /\ ev' = "saved"
        /\ consecutive_failures' = 0
        /\ pages_fetched' = pages_fetched + 1
        /\ UNCHANGED <<pc, idx, cycles, Rest, Ledger, flagFile>>
        /\ UNCHANGED liveAtStart

\* write_run_complete_flag
WriteRunCompleteFlag == flagFile' = now

\* the flag is written inside the for loop, after the first site
AfterFirstSite == idx > 1

\* main_loop, line 465: the for loop over the sites has ended
CycleComplete == idx > Len(Sites)

\* main_loop, lines 464-465
EndCycle ==
    /\ pc = "site"
    /\ CycleComplete
    /\ WriteRunCompleteFlag
    /\ pc' = "end"
    /\ ev' = "flag"
    /\ liveAtStart' = {}
    /\ UNCHANGED <<now, idx, cycles, Rest, Ledger, Locals, Disk>>
    /\ UNCHANGED <<errRun, downRun>>

\* main_loop, lines 467-473: a single run, or no interval
ExitRun ==
    /\ pc = "end"
    /\ ProcessGone
    /\ ev' = "exit"
    /\ UNCHANGED <<now, cycles, Rest, deadFile, flagFile, Disk>>
    /\ UNCHANGED histVars

\* main_loop, lines 475-477: sleep the interval, then the next cycle
SleepInterval ==
    /\ pc = "end"
    /\ now < MaxTime
    /\ now' = now + 1
    /\ pc' = "cycle"
    /\ ev' = "sleep"
    /\ UNCHANGED <<idx, cycles, Rest, Ledger, flagFile, Locals, Disk>>
    /\ UNCHANGED histVars

\* __main__, lines 498-505: KeyboardInterrupt anywhere in main_loop
Interrupt ==
    /\ pc \in {"cycle", "site", "crawl", "end"}
    /\ WriteRunCompleteFlag
    /\ ProcessGone
    /\ ev' = "interrupt"
    /\ liveAtStart' = {}
    /\ errRun' = [s \in SiteSet |-> IF pc = "crawl" /\ Sites[idx] = s THEN 0 ELSE errRun[s]]
    /\ downRun' = [s \in SiteSet |-> 0]
    /\ UNCHANGED <<now, cycles, Rest, deadFile, Disk>>

\* the crawler is run again (python crawler.py), dt ticks later
Invoke ==
    \E dt \in 0..1 :
        /\ pc = "exited"
        /\ cycles < cycleLimit
        /\ now + dt <= MaxTime /\ now' = now + dt
        /\ pc' = "boot"
        /\ ev' = "invoke"
        /\ UNCHANGED <<idx, cycles, Rest, Ledger, flagFile, Locals, Disk>>
        /\ UNCHANGED histVars

Next ==
    \/ Boot
    \/ StartCycle
    \/ EnterSite
    \/ CrawlDone
    \/ SkipUrl
    \/ FetchError
    \/ FetchArchived
    \/ FetchWriteError
    \/ FetchSaved
    \/ EndCycle
    \/ ExitRun
    \/ SleepInterval
    \/ Interrupt
    \/ Invoke

(***************************************************************************)
(* The keyword watch engine (scooper.py).                                  *)
(***************************************************************************)
Keywords == {"k1", "k2"}

\* the contents keywords.txt takes
KeywordFiles ==
    { <<>>, <<"k1">>, <<"k2">>, <<"k2", " k1">>, <<"# k2", "k1", "k1">> }

\* the corpus indexes gather_files_to_search returns: the snapshot files, in
\* the order of the index, each with the keywords that occur in its text
Corpora ==
    { <<>>,
      <<[file |-> "f1", words |-> {"k1"}]>>,
      <<[file |-> "f1", words |-> {"k1"}], [file |-> "f2", words |-> {"k1", "k2"}]>> }

\* last_run_ts = None
None == -1

HISTORY_MAX == 100

\* str.strip
Strip(l) == IF l = " k1" THEN "k1" ELSE l

\* load_keywords, lines 36-41
LoadKeywords(file) ==
    SelectSeq([i \in DOMAIN file |-> Strip(file[i])],
              LAMBDA l : l # "" /\ l # "# k2")

\* sorted(list(S))
Sorted(S) ==
    CHOOSE q \in Orders(S) :
        \A i, j \in DOMAIN q : i < j => (q[i] = "k1" /\ q[j] = "k2")

\* the keys of a dict built from a list: first occurrences, in order
RECURSIVE Keys(_)
Keys(list) ==
    IF list = <<>> THEN <<>>
    ELSE LET front == Keys(SubSeq(list, 1, Len(list) - 1))
             last == list[Len(list)]
         IN  IF last \in Range(front) THEN front ELSE Append(front, last)

\* search_keywords_in_files, lines 148-161: the keywords against one file
RECURSIVE ScanFile(_, _, _, _)
ScanFile(res, keywords, f, t) ==
    IF keywords = <<>> THEN res
    ELSE LET kw == Head(keywords)
             hit == [file |-> f.file, found_at |-> t]
         IN  ScanFile(IF kw \in f.words THEN [res EXCEPT ![kw] = Append(@, hit)] ELSE res,
                      Tail(keywords), f, t)

\* search_keywords_in_files, line 114: the files of the index in order
RECURSIVE ScanIndex(_, _, _, _)
ScanIndex(res, keywords, index, t) ==
    IF index = <<>> THEN res
    ELSE ScanIndex(ScanFile(res, keywords, Head(index), t), keywords, Tail(index), t)

\* search_keywords_in_files, lines 111-162
SearchKeywordsInFiles(keywords, index, t) ==
    ScanIndex([k \in Range(keywords) |-> <<>>], keywords, index, t)

\* load_results_file, line 168
InitialResults == [last_run |-> None, keywords |-> <<>>, history |-> <<>>]

\* current["keywords"] = the new entries: what was there is dropped
ReplaceEntries(old, new, t) ==
    [k \in DOMAIN new |-> [last_searched_at |-> t, hits |-> new[k]]]

\* if hits: a keyword without hits keeps the entry it had
MergeHits(old, new, t) ==
    [k \in DOMAIN old \cup {n \in DOMAIN new : new[n] # <<>>} |->
        IF k \in DOMAIN new /\ new[k] # <<>>
        THEN [last_searched_at |-> t, hits |-> new[k]]
        ELSE old[k]]

\* update_results_for_keywords, lines 188-192
MergeEntries(old, new, t) ==
    [k \in DOMAIN old \cup DOMAIN new |->
        IF k \in DOMAIN new THEN [last_searched_at |-> t, hits |-> new[k]] ELSE old[k]]

\* history[-100:]: the oldest records are kept instead of the latest
KeepOldest(history) ==
    IF Len(history) > HISTORY_MAX
    THEN SubSeq(history, Len(history) - HISTORY_MAX + 1, Len(history)) ELSE history

\* update_results_for_keywords, lines 197-198: history[:100]
KeepLatest(history) ==
    IF Len(history) > HISTORY_MAX THEN SubSeq(history, 1, HISTORY_MAX) ELSE history

\* update_results_for_keywords, lines 180-200
UpdateResultsForKeywords(current, new_results, updated, trigger, t) ==
    LET history == <<[ts |-> t, trigger |-> trigger, updated_keywords |-> updated]>>
                       \o current.history
    IN  [last_run |-> t,
         keywords |-> MergeEntries(current.keywords, new_results, t),
         history |-> KeepLatest(history)]

\* results.json after n merges made before the watch engine was started: record
\* i of the history was written i + 1 ticks before the clock of the model starts
EarlierResults(n) ==
    [last_run |-> 0 - 2,
     keywords |-> [k \in {"k1"} |-> [last_searched_at |-> 0 - 2, hits |-> <<>>]],
     history |-> [i \in 1..n |->
                    [ts |-> 0 - 1 - i, trigger |-> "manual-run",
                     updated_keywords |-> <<"k1">>]]]

\* run_once_for_list, lines 215-224, and run_once_all, lines 203-213
RunOnceForList(current, keywords, index, trigger, t) ==
    IF keywords = <<>> THEN current
    ELSE UpdateResultsForKeywords(current, SearchKeywordsInFiles(keywords, index, t),
                                  Keys(keywords), trigger, t)

\* what a run of run_once_for_list adds to the searches of the step
Ran(keywords, trigger) ==
    IF keywords = <<>> THEN <<>> ELSE <<[trigger |-> trigger, keywords |-> keywords]>>

\* a marker as old as the one acted on counts as new
MarkerNotOlder(flag, last) == flag # NoFile /\ (last = None \/ flag >= last)

\* watch_loop, lines 247-249
MarkerAdvanced(flag, last) == flag # NoFile /\ (last = None \/ flag > last)

WatchInit ==
    /\ wpc = "start"
    /\ kwFile = <<>>
    /\ corpus = <<>>
    /\ last_keywords_set = {}
    /\ last_run_ts = None
    /\ results = InitialResults
    /\ searches = <<>>

\* what no step of the watch engine or of its environment changes
Crawler == <<pc, idx, cycles, cycleLimit, sitesFile, deadlist, deadFile, meta, metaFile, store,
             to_visit, visited, pages_fetched, consecutive_failures, removed_files,
             histVars, fileVars, unitVars>>

\* the last-observed set follows the source in every poll
FollowsSource(last, current, added) == current

\* watch_loop, lines 241-245: the last-observed set after a poll
LastObserved(last, current, added) == IF added # <<>> THEN current ELSE last

\* watch_loop, lines 227-235: the start, with the initial run
WatchStart ==
    /\ wpc = "start"
    /\ wpc' = "watch"
    /\ LET last_keywords == LoadKeywords(kwFile)
       IN  /\ last_keywords_set' = Range(last_keywords)
           /\ results' = RunOnceForList(results, LoadKeywords(kwFile), corpus,
                                        "manual-run", now)
           /\ searches' = Ran(last_keywords, "manual-run")
    /\ last_run_ts' = None
    /\ ev' = "watch"
    /\ UNCHANGED <<now, flagFile, kwFile, corpus, Crawler>>

\* watch_loop, lines 237-256: one iteration, after the sleep of one tick
Poll ==
    /\ wpc = "watch"
    /\ now < MaxTime
    /\ now' = now + 1
    /\ LET current_set == Range(LoadKeywords(kwFile))
           added == Sorted(current_set \ last_keywords_set)
           merged == RunOnceForList(results, added, corpus, "new-keywords", now')
           advanced == MarkerAdvanced(flagFile, last_run_ts)
       IN  /\ last_keywords_set' = LastObserved(last_keywords_set, current_set, added)
           /\ last_run_ts' = IF advanced THEN flagFile ELSE last_run_ts
           /\ IF advanced
              THEN \E all_kws \in Orders(current_set) :
                      /\ results' = RunOnceForList(merged, all_kws, corpus,
                                                   "crawler-run-complete", now')
                      /\ searches' = Ran(added, "new-keywords")
                                         \o Ran(all_kws, "crawler-run-complete")
              ELSE /\ results' = merged
                   /\ searches' = Ran(added, "new-keywords")
    /\ ev' = "poll"
    /\ UNCHANGED <<wpc, flagFile, kwFile, corpus, Crawler>>

\* keywords.txt is edited
EditKeywords ==
    /\ \E f \in KeywordFiles \ {kwFile} : kwFile' = f
    /\ ev' = "edit"
    /\ searches' = <<>>
    /\ UNCHANGED <<now, flagFile, wpc, corpus, last_keywords_set, last_run_ts,
                   results, Crawler>>

\* the crawler saves or prunes snapshots: the corpus index changes
CorpusChanges ==
    /\ \E c \in Corpora \ {corpus} : corpus' = c
    /\ ev' = "corpus"
    /\ searches' = <<>>
    /\ UNCHANGED <<now, flagFile, wpc, kwFile, last_keywords_set, last_run_ts,
                   results, Crawler>>

\* the crawler writes run_complete.flag
FlagWritten ==
    /\ WriteRunCompleteFlag
    /\ ev' = "flag"
    /\ searches' = <<>>
    /\ UNCHANGED <<now, wpc, kwFile, corpus, last_keywords_set, last_run_ts,
                   results, Crawler>>

NextWatch ==
    \/ WatchStart
    \/ Poll
    \/ EditKeywords
    \/ CorpusChanges
    \/ FlagWritten

(***************************************************************************)
(* The writes of the shared files, byte by byte: Path.write_text opens the *)
(* file for writing, which creates or truncates it, writes the text and    *)
(* closes it; the text reaches the file in two parts.                      *)
(***************************************************************************)
Procs == {"crawler", "scooper"}

Paths == {"metadata.json", "dead_sites.json", "results.json", "results.tmp"}

\* json.dumps of document v
Dumps(v) == <<[doc |-> v, part |-> 1], [doc |-> v, part |-> 2]>>

NoSuchFile == [exists |-> FALSE, text |-> <<>>]

Idle == [pc |-> "idle", path |-> "", target |-> "", text |-> <<>>]

\* the write goes to the file itself
SamePath(path) == path

\* atomic_write_json, line 175: path.with_suffix(".tmp")
WithSuffixTmp(path) == IF path = "results.json" THEN "results.tmp" ELSE path

FilesInit ==
    /\ disk = [p \in Paths |-> NoSuchFile]
    /\ wr = [p \in Procs |-> Idle]
    /\ ver = 0

\* what no step of a write changes
NotFiles == <<progVars, histVars, watchVars, unitVars>>

\* open(path, "w") of write_text, for the text of a new document
OpenForWrite(p, path, target) ==
    /\ wr[p].pc = "idle"
    /\ ver < MaxWrites
    /\ ver' = ver + 1
    /\ disk' = [disk EXCEPT ![path] = [exists |-> TRUE, text |-> <<>>]]
    /\ wr' = [wr EXCEPT ![p] = [pc |-> "writing", path |-> path, target |-> target,
                                text |-> Dumps(ver + 1)]]

\* save_metadata, lines 118-120, and save_deadlist, lines 217-224
SaveFile ==
    /\ \E path \in {"metadata.json", "dead_sites.json"} :
           OpenForWrite("crawler", path, path)
    /\ UNCHANGED NotFiles

\* atomic_write_json, lines 175-176
AtomicWriteJson ==
    /\ OpenForWrite("scooper", WithSuffixTmp("results.json"), "results.json")
    /\ UNCHANGED NotFiles

\* write_text: the next part of the text reaches the file
WritePart ==
    /\ \E p \in Procs :
        /\ wr[p].pc = "writing"
        /\ Len(disk[wr[p].path].text) < Len(wr[p].text)
        /\ disk' = [disk EXCEPT ![wr[p].path].text =
                        Append(@, wr[p].text[Len(@) + 1])]
    /\ UNCHANGED <<wr, ver, NotFiles>>

\* write_text returns
WriteDone ==
    /\ \E p \in Procs :
        /\ wr[p].pc = "writing"
        /\ disk[wr[p].path].text = wr[p].text
        /\ wr' = [wr EXCEPT ![p] = IF wr[p].path = wr[p].target THEN Idle
                                   ELSE [@ EXCEPT !.pc = "replace"]]
    /\ UNCHANGED <<disk, ver, NotFiles>>

\* atomic_write_json, line 178: tmp.replace(path)
Replace ==
    /\ wr["scooper"].pc = "replace"
    /\ disk' = [disk EXCEPT ![wr["scooper"].target] = disk[wr["scooper"].path],
                            ![wr["scooper"].path] = NoSuchFile]
    /\ wr' = [wr EXCEPT !["scooper"] = Idle]
    /\ UNCHANGED <<ver, NotFiles>>

\* the process is killed during a write; it may be started again
Kill ==
    /\ \E p \in Procs :
        /\ wr[p].pc # "idle"
        /\ wr' = [wr EXCEPT ![p] = Idle]
    /\ UNCHANGED <<disk, ver, NotFiles>>

NextFiles ==
    \/ SaveFile
    \/ AtomicWriteJson
    \/ WritePart
    \/ WriteDone
    \/ Replace
    \/ Kill

(***************************************************************************)
(* fetch_url (crawler.py). The variable fetch holds the arguments of the   *)
(* call (args), its locals (attempt, delay, last_exc, status, total: the   *)
(* length of b"".join(chunks)), the bytes of the body the server has not   *)
(* sent yet (remaining), where the call is (pc), what it returned or       *)
(* raised (ret), and three history fields: the number of session.get calls *)
(* (requests), the delays slept (slept) and how each attempt ended         *)
(* (outcomes).                                                             *)
(***************************************************************************)
ARCHIVE_STATUS_CODES == {404, 410}

\* the status codes a server answers with
Statuses == {200, 404, 410, 500}

NoCall == [attempts |-> 1, base_delay |-> 1, read_chunk |-> 1, max_bytes |-> 1]

\* fetch_url, lines 144-146: last_exc = None, delay = base_delay, first attempt
Frame(at, args) ==
    [pc |-> at, args |-> args, attempt |-> 1, delay |-> args.base_delay,
     last_exc |-> "None", status |-> 0, remaining |-> 0, total |-> 0,
     ret |-> [kind |-> "none"], requests |-> 0, slept |-> <<>>, outcomes |-> <<>>]

\* the call has reached the first attempt
FetchEntered(args) == fetch = Frame("attempt", args)

\* no call of fetch_url is followed
FetchIdle == fetch = Frame("idle", NoCall)

\* the loop goes on after the last attempt as well
RetryOnceMore(n, attempts) == n <= attempts

\* fetch_url, line 192: attempt < attempts
HasAttemptsLeft(n, attempts) == n < attempts

\* fetch_url, lines 190-197: the except clause of an attempt
Except(f, e) ==
    LET g == [f EXCEPT !.last_exc = e, !.outcomes = Append(@, e)]
    IN  IF HasAttemptsLeft(f.attempt, f.args.attempts)
        THEN [g EXCEPT !.slept = Append(@, f.delay),
                       !.delay = @ * 2,
                       !.attempt = @ + 1,
                       !.pc = "attempt"]
        ELSE [g EXCEPT !.pc = "raised", !.ret = [kind |-> "raise", exc |-> e]]

\* fetch_url, lines 170-188: the body has been read; the status decides
AfterRead(f) ==
    IF f.status >= 400 /\ f.status \notin ARCHIVE_STATUS_CODES
    THEN Except(f, "HTTPError")
    ELSE [f EXCEPT !.pc = "returned",
                   !.ret = [kind |-> "return", status_code |-> f.status,
                            content |-> f.total],
                   !.outcomes = Append(@, "response")]

\* fetch_url, line 150: session.get connects and receives the status line and
\* the headers, or raises
SessionGet ==
    /\ fetch.pc = "attempt"
    /\ LET f == [fetch EXCEPT !.requests = @ + 1, !.total = 0]
       IN  \/ \E e \in {"ConnectionError", "Timeout"} : fetch' = Except(f, e)
           \/ \E st \in Statuses, len \in 0..MaxBody :
                 fetch' = [f EXCEPT !.status = st, !.remaining = len, !.pc = "read"]
    /\ UNCHANGED <<progVars, histVars, watchVars, fileVars, snip, deadFlag, procs, saving>>

\* fetch_url, lines 156-169: one round of the loop over resp.iter_content, which
\* yields a chunk of up to read_chunk bytes, ends, or raises; the overall timeout
\* is tested before the chunk is taken
IterContent ==
    /\ fetch.pc = "read"
    /\ \/ \E e \in {"ConnectionError", "Timeout"} : fetch' = Except(fetch, e)
       \/ /\ fetch.remaining = 0
          /\ fetch' = AfterRead(fetch)
       \/ \E n \in 1..fetch.args.read_chunk :
            /\ n <= fetch.remaining
            /\ LET f == [fetch EXCEPT !.total = @ + n, !.remaining = @ - n]
               IN  fetch' = IF f.total >= f.args.max_bytes THEN AfterRead(f) ELSE f
    /\ UNCHANGED <<progVars, histVars, watchVars, fileVars, snip, deadFlag, procs, saving>>

NextFetch ==
    \/ SessionGet
    \/ IterContent

(***************************************************************************)
(* find_snippets (scooper.py). The variable snip holds the arguments of    *)
(* the call (text, keyword, chars), whether it was made (called) and what  *)
(* it returned (snippets).                                                 *)
(***************************************************************************)
\* the characters of the texts
Chars == {"a", "A", "b"}

\* the keywords searched for
Needles == {<<"a">>, <<"A", "b">>, <<"a", "a">>}

\* str.upper, and the case folding of re.IGNORECASE
Upper(c) == CASE c = "a" -> "A" [] c = "b" -> "B" [] OTHER -> c
Lower(c) == CASE c = "A" -> "a" [] c = "B" -> "b" [] OTHER -> c

UpperAll(str) == [i \in DOMAIN str |-> Upper(str[i])]

\* the Python slice str[a:b], for 0 <= a and b <= len(str)
Slice(str, a, b) == SubSeq(str, a + 1, b)

Max(a, b) == IF a > b THEN a ELSE b
Least(a, b) == IF a < b THEN a ELSE b

\* re.escape(keyword) with re.IGNORECASE matches at the 0-based offset m
MatchAt(txt, kw, m) ==
    /\ m + Len(kw) <= Len(txt)
    /\ \A j \in 1..Len(kw) : Lower(txt[m + j]) = Lower(kw[j])

\* the loop of find_snippets goes on with more than five snippets
OverFive(found) == Len(found) > 5

\* find_snippets, line 107
Enough(found) == Len(found) >= 5

\* find_snippets, lines 101-106: the snippet of the match at offsets m_start..m_end
Snippet(txt, m_start, m_end, width) ==
    LET start == Max(0, m_start - width)
        end == Least(Len(txt), m_end + width)
        snippet == Slice(txt, start, end)
    IN  Slice(snippet, 0, m_start - start)
            \o UpperAll(Slice(txt, m_start, m_end))
            \o Slice(snippet, m_end - start, Len(snippet))

\* pattern.finditer(text), from offset pos on: the leftmost match, its snippet,
\* and on after the end of the match
RECURSIVE Finditer(_, _, _, _, _)
Finditer(txt, kw, width, pos, found) ==
    LET ms == {m \in pos..Len(txt) : MatchAt(txt, kw, m)}
    IN  IF ms = {}
        THEN found
        ELSE LET m == CHOOSE x \in ms : \A y \in ms : x <= y
                 more == Append(found, Snippet(txt, m, m + Len(kw), width))
             IN  IF Enough(more)
                 THEN more
                 ELSE Finditer(txt, kw, width, m + Len(kw), more)

\* find_snippets
FindSnippets(txt, kw, width) == Finditer(txt, kw, width, 0, <<>>)

\* the arguments of a call of find_snippets that is still to be made
Uncalled(txt, kw, width) ==
    [text |-> txt, keyword |-> kw, chars |-> width, snippets |-> <<>>, called |-> FALSE]

\* no call of find_snippets is followed
SnippetsIdle == snip = Uncalled(<<>>, <<"a">>, 0)

\* the call of find_snippets
FindSnippetsCall ==
    /\ ~snip.called
    /\ snip' = [snip EXCEPT !.called = TRUE,
                            !.snippets = FindSnippets(snip.text, snip.keyword, snip.chars)]
    /\ UNCHANGED <<progVars, histVars, watchVars, fileVars, fetch, deadFlag, procs, saving>>

NextSnippets == FindSnippetsCall

(***************************************************************************)
(* The dead flag of a hit (scooper.py) and is_site_dead (crawler.py). The  *)
(* variable deadFlag holds the entry of sites.yaml of the site             *)
(* (site_conf), dead_sites.json as both engines read it (ledger),          *)
(* utc_now() (clock),                                                      *)
(* the entry of the file index (page), the flag the watch engine computes  *)
(* (is_dead) and what is_site_dead returns (reported).                     *)
(***************************************************************************)
\* a site of sites.yaml, without and with a key of its own
SiteEntries ==
    {[name |-> "news", hostname |-> "news.example", key |-> k] : k \in {"", "K"}}

\* crawl_site, line 288: site_conf.get("key") or parsed_base.hostname or site_name
SiteKey(conf) ==
    IF conf.key # "" THEN conf.key
    ELSE IF conf.hostname # "" THEN conf.hostname ELSE conf.name

\* gather_files_to_search: a snapshot listed by a page record comes with the URL
\* of the page, a snapshot no record lists with http://<site directory>/<file>
IndexEntries(conf) ==
    {[site |-> conf.name, hostname |-> conf.hostname],
     [site |-> conf.name, hostname |-> conf.name]}

\* dead_sites.json as mark_site_dead leaves it: nothing, or the entry of the
\* site marked at t0 for retry ticks, next to the entry of another site or not
LedgerFiles(conf) ==
    LET own == {<<>>} \cup
               {SerialDeadlist(MarkSiteDead(<<>>, SiteKey(conf), t0, retry)) :
                    t0 \in 0..MaxTime, retry \in 1..2}
    IN  own \cup {SerialDeadlist(MarkSiteDead(LoadDeadlist(f), "other.example", 0, 1)) :
                    f \in own}

\* search_keywords_in_files, lines 116-124: prefer the hostname of the URL
ParsedKey(entry) == IF entry.hostname # "" THEN entry.hostname ELSE entry.site

\* search_keywords_in_files, lines 125-140
HitIsDead(file, entry, t) ==
    LET parsed_key == ParsedKey(entry)
    IN  IF parsed_key \in DOMAIN file
        THEN IF "until" \in DOMAIN file[parsed_key]
             THEN t < FromIsoFormat(file[parsed_key].until)
             ELSE TRUE
        ELSE FALSE

\* a site, a ledger file, a time and an index entry, before the two engines
\* have looked at them
Unannotated(conf, file, t, entry) ==
    [site_conf |-> conf, ledger |-> file, clock |-> t, page |-> entry,
     is_dead |-> FALSE, reported |-> FALSE, annotated |-> FALSE]

\* nothing is compared
FlagIdle ==
    deadFlag = Unannotated([name |-> "", hostname |-> "", key |-> ""], <<>>, 0,
                           [site |-> "", hostname |-> ""])

\* a hit of the page is annotated by the watch engine while the crawl engine
\* checks the site of the page
Annotate ==
    /\ ~deadFlag.annotated
    /\ deadFlag' =
          [deadFlag EXCEPT
              !.annotated = TRUE,
              !.is_dead = HitIsDead(deadFlag.ledger, deadFlag.page, deadFlag.clock),
              !.reported = IsSiteDead(LoadDeadlist(deadFlag.ledger),
                                      SiteKey(deadFlag.site_conf), deadFlag.clock).dead]
    /\ UNCHANGED <<progVars, histVars, watchVars, fileVars, fetch, snip, procs, saving>>

NextFlag == Annotate

(***************************************************************************)
(* Two crawler processes and the ledger file. The variable procs holds,    *)
(* per process, where it is (pc), the site it crawls (site) and            *)
(* main_loop's deadlist (deadlist), and with them dead_sites.json          *)
(* (ledger), the wall clock (time) and a history field: the entries        *)
(* mark_site_dead has added (marked).                                      *)
(***************************************************************************)
Crawlers == {"c1", "c2"}

\* the two processes at one point of main_loop, the ledger file empty
Pair(at) ==
    [pc |-> [c \in Crawlers |-> at],
     site |-> [c \in Crawlers |-> ""],
     deadlist |-> [c \in Crawlers |-> <<>>],
     ledger |-> <<>>,
     time |-> 0,
     marked |-> {}]

\* no second crawler runs
LedgerIdle == procs = Pair("off")

\* two crawlers are started (python crawler.py, twice)
LedgerInit == procs = Pair("boot")

NotLedger == <<progVars, histVars, watchVars, fileVars, fetch, snip, deadFlag, saving>>

\* main_loop, line 446: deadlist = load_deadlist(), once per process
LoadLedger(c) ==
    /\ procs.pc[c] = "boot"
    /\ procs' = [procs EXCEPT !.deadlist[c] = LoadDeadlist(procs.ledger),
                              !.pc[c] = "loop"]
    /\ UNCHANGED NotLedger

\* crawl_site, lines 290-293: is_site_dead on the process's own deadlist
CheckSite(c, s) ==
    /\ procs.pc[c] = "loop"
    /\ LET r == IsSiteDead(procs.deadlist[c], s, procs.time)
       IN  procs' = [procs EXCEPT
                        !.deadlist[c] = r.list,
                        !.ledger = IF r.saved THEN SerialDeadlist(r.list) ELSE @,
                        !.pc[c] = IF r.dead THEN "loop" ELSE "crawl",
                        !.site[c] = IF r.dead THEN "" ELSE s]
    /\ UNCHANGED NotLedger

\* crawl_site, lines 328-332 and 350-354: mark_site_dead, which saves the
\* process's own deadlist
MarkDead(c) ==
    /\ procs.pc[c] = "crawl"
    /\ Cardinality(procs.marked) < MaxMarks
    /\ LET s == procs.site[c]
           d == MarkSiteDead(procs.deadlist[c], s, procs.time, SiteConf(s).retry)
       IN  procs' = [procs EXCEPT
                        !.deadlist[c] = d,
                        !.ledger = SerialDeadlist(d),
                        !.marked = @ \cup {[site |-> s, until |-> d[s].until, by |-> c]},
                        !.pc[c] = "loop",
                        !.site[c] = ""]
    /\ UNCHANGED NotLedger

\* crawl_site returns without marking the site
Crawled(c) ==
    /\ procs.pc[c] = "crawl"
    /\ procs' = [procs EXCEPT !.pc[c] = "loop", !.site[c] = ""]
    /\ UNCHANGED NotLedger

\* time passes
Tick ==
    /\ procs.time < MaxTime
    /\ procs' = [procs EXCEPT !.time = @ + 1]
    /\ UNCHANGED NotLedger

NextLedger ==
    \/ \E c \in Crawlers : LoadLedger(c)
    \/ \E c \in Crawlers, s \in {"A", "B"} : CheckSite(c, s)
    \/ \E c \in Crawlers : MarkDead(c)
    \/ \E c \in Crawlers : Crawled(c)
    \/ Tick

(***************************************************************************)
(* The save of a page, statement by statement (crawl_site, lines 356-385,  *)
(* and prune_old_versions). The variable saving holds the record of the    *)
(* page in metadata.json (disk_meta) and in memory (page_meta), the        *)
(* snapshot files of the site directory (dir), the wall clock (now), the   *)
(* site's max_versions_per_page, the name of the snapshot being saved      *)
(* (fname), whether the page was fetched in the crawl under way (visited)  *)
(* and where the crawler is (pc).                                          *)
(***************************************************************************)
\* the crawler at one point of the loop, nothing fetched yet
SaveFrame(at, max) ==
    [pc |-> at, max_versions |-> max, now |-> 0, disk_meta |-> EmptyRec,
     page_meta |-> EmptyRec, dir |-> {}, fname |-> SafeFilename(0, "p"),
     visited |-> FALSE]

\* no save is followed
SaveIdle == saving = SaveFrame("off", 1)

NotSave == <<progVars, histVars, watchVars, fileVars, fetch, snip, deadFlag, procs>>

\* crawl_site, lines 356-362: a response with a normal status; the file name
SaveBegin ==
    /\ saving.pc = "loop"
    /\ ~saving.visited
    /\ saving' = [saving EXCEPT !.fname = SafeFilename(saving.now, "p"),
                                !.visited = TRUE,
                                !.pc = "write"]
    /\ UNCHANGED NotSave

\* crawl_site, line 364: fpath.write_bytes(content)
WriteBytes ==
    /\ saving.pc = "write"
    /\ saving' = [saving EXCEPT !.dir = @ \cup {saving.fname}, !.pc = "insert"]
    /\ UNCHANGED NotSave

\* crawl_site, lines 365-369: the write raises; the metadata is saved
WriteRaises ==
    /\ saving.pc = "write"
    /\ saving' = [saving EXCEPT !.disk_meta = saving.page_meta, !.pc = "loop"]
    /\ UNCHANGED NotSave

\* crawl_site, lines 372-378: the new snapshot at the front of the list
InsertFile ==
    /\ saving.pc = "insert"
    /\ saving' = [saving EXCEPT !.page_meta.files = <<saving.fname>> \o @,
                                !.page_meta.archived = FALSE,
                                !.pc = "prune"]
    /\ UNCHANGED NotSave

\* prune_old_versions, lines 265-271: one round of the while loop
PopAndUnlink ==
    /\ saving.pc = "prune"
    /\ ~saving.page_meta.archived
    /\ Len(saving.page_meta.files) > saving.max_versions
    /\ LET files == saving.page_meta.files
       IN  saving' = [saving EXCEPT
                         !.page_meta.files = SubSeq(files, 1, Len(files) - 1),
                         !.dir = @ \ {files[Len(files)]}]
    /\ UNCHANGED NotSave

\* prune_old_versions, lines 258-262 and 274-275: nothing to remove, or no more
PruneReturns ==
    /\ saving.pc = "prune"
    /\ saving.page_meta.archived \/ Len(saving.page_meta.files) <= saving.max_versions
    /\ saving' = [saving EXCEPT !.pc = "save"]
    /\ UNCHANGED NotSave

\* crawl_site, line 385: save_metadata
SaveMetadata ==
    /\ saving.pc = "save"
    /\ saving' = [saving EXCEPT !.disk_meta = saving.page_meta, !.pc = "loop"]
    /\ UNCHANGED NotSave

\* crawl_site, lines 341-347: an archive code; the page is archived and saved
ArchivePage ==
    /\ saving.pc = "loop"
    /\ ~saving.visited
    /\ saving' = [saving EXCEPT !.page_meta.archived = TRUE,
                                !.visited = TRUE,
                                !.disk_meta = [saving.page_meta EXCEPT !.archived = TRUE]]
    /\ UNCHANGED NotSave

\* main_loop, lines 475-477: the crawl ends and the next cycle starts after the
\* interval
NextCycle ==
    /\ saving.pc = "loop"
    /\ saving.now < MaxTime
    /\ saving' = [saving EXCEPT !.now = @ + 1, !.visited = FALSE]
    /\ UNCHANGED NotSave

\* __main__, lines 498-505: KeyboardInterrupt at any statement; the handler
\* writes the run-complete flag and the process ends
SaveInterrupted ==
    /\ saving.pc \in {"loop", "write", "insert", "prune", "save"}
    /\ saving' = [saving EXCEPT !.pc = "exited", !.page_meta = EmptyRec]
    /\ UNCHANGED NotSave

\* the crawler is run again: crawl_site, lines 295-297, load_metadata
CrawlAgain ==
    /\ saving.pc = "exited"
    /\ saving' = [saving EXCEPT !.pc = "loop", !.page_meta = saving.disk_meta,
                                !.visited = FALSE]
    /\ UNCHANGED NotSave

NextSave ==
    \/ SaveBegin
    \/ WriteBytes
    \/ WriteRaises
    \/ InsertFile
    \/ PopAndUnlink
    \/ PruneReturns
    \/ SaveMetadata
    \/ ArchivePage
    \/ NextCycle
    \/ SaveInterrupted
    \/ CrawlAgain

UnitsIdle == FetchIdle /\ SnippetsIdle /\ FlagIdle /\ LedgerIdle /\ SaveIdle

(***************************************************************************)
(* The specifications.                                                     *)
(***************************************************************************)
Init ==
    /\ sitesFile = TwoSites /\ cycleLimit = MaxCycles /\ CrawlInit
    /\ WatchInit /\ FilesInit /\ UnitsIdle

\* the crawler
Spec == Init /\ [][Next]_vars

\* the same runs, one cycle longer
InitLong ==
    /\ sitesFile = TwoSites /\ cycleLimit = MaxCycles + 1 /\ CrawlInit
    /\ WatchInit /\ FilesInit /\ UnitsIdle

SpecLong == InitLong /\ [][Next]_vars

\* the crawl of the site whose pages go deeper than its max_depth
InitDeep ==
    /\ sitesFile = DeepSite /\ cycleLimit = MaxCycles /\ CrawlInit
    /\ WatchInit /\ FilesInit /\ UnitsIdle

SpecDeep == InitDeep /\ [][Next]_vars

\* an iteration of crawl_site's while loop, or its end
CrawlStep ==
    \/ CrawlDone
    \/ SkipUrl
    \/ FetchError
    \/ FetchArchived
    \/ FetchWriteError
    \/ FetchSaved

\* the crawler, whose process goes on with the loop of crawl_site as long as it
\* is not interrupted: fetch_url and the sleeps return after a bounded time
SpecFair == InitDeep /\ [][Next]_vars /\ WF_vars(CrawlStep)

\* the watch engine, with the crawler as its environment
SpecWatch == Init /\ [][NextWatch]_vars

\* the writers of the shared files
SpecFiles == Init /\ [][NextFiles]_vars

\* the watch engine, started on a results store whose history is nearly full
InitHistory ==
    /\ sitesFile = TwoSites /\ cycleLimit = MaxCycles /\ CrawlInit
    /\ FilesInit /\ UnitsIdle
    /\ wpc = "start"
    /\ kwFile = <<>>
    /\ corpus = <<>>
    /\ last_keywords_set = {}
    /\ last_run_ts = None
    /\ results = EarlierResults(HISTORY_MAX - 1)
    /\ searches = <<>>

SpecHistory == InitHistory /\ [][NextWatch]_vars

\* one call of fetch_url, for every choice of its arguments
InitFetch ==
    /\ sitesFile = TwoSites /\ cycleLimit = MaxCycles /\ CrawlInit
    /\ WatchInit /\ FilesInit /\ SnippetsIdle /\ FlagIdle /\ LedgerIdle /\ SaveIdle
    /\ \E a \in 1..MaxAttempts, b \in 1..2, c \in 1..MaxBody, m \in 1..MaxBody :
          FetchEntered([attempts |-> a, base_delay |-> b, read_chunk |-> c, max_bytes |-> m])

SpecFetch == InitFetch /\ [][NextFetch]_vars

\* one call of find_snippets, for every text, keyword and window
InitSnippets ==
    /\ sitesFile = TwoSites /\ cycleLimit = MaxCycles /\ CrawlInit
    /\ WatchInit /\ FilesInit /\ FetchIdle /\ FlagIdle /\ LedgerIdle /\ SaveIdle
    /\ \E txt \in UNION {[1..n -> Chars] : n \in 0..MaxLen}, kw \in Needles,
          width \in 0..MaxWindow :
          snip = Uncalled(txt, kw, width)

SpecSnippets == InitSnippets /\ [][NextSnippets]_vars

\* the dead flag of a hit and is_site_dead, for every ledger the crawl engine
\* writes, every time and every entry of the file index
InitFlag ==
    /\ sitesFile = TwoSites /\ cycleLimit = MaxCycles /\ CrawlInit
    /\ WatchInit /\ FilesInit /\ FetchIdle /\ SnippetsIdle /\ LedgerIdle /\ SaveIdle
    /\ \E conf \in SiteEntries :
          \E file \in LedgerFiles(conf), t \in 0..(MaxTime + 2),
             entry \in IndexEntries(conf) :
             deadFlag = Unannotated(conf, file, t, entry)

SpecFlag == InitFlag /\ [][NextFlag]_vars

\* two crawler processes that share the ledger file
InitLedger ==
    /\ sitesFile = TwoSites /\ cycleLimit = MaxCycles /\ CrawlInit
    /\ WatchInit /\ FilesInit /\ FetchIdle /\ SnippetsIdle /\ FlagIdle /\ SaveIdle
    /\ LedgerInit

SpecLedger == InitLedger /\ [][NextLedger]_vars

\* the saves of one page, for a site that keeps one or two versions
InitSave ==
    /\ sitesFile = TwoSites /\ cycleLimit = MaxCycles /\ CrawlInit
    /\ WatchInit /\ FilesInit /\ FetchIdle /\ SnippetsIdle /\ FlagIdle /\ LedgerIdle
    /\ \E max \in 1..2 : saving = SaveFrame("loop", max)

SpecSave == InitSave /\ [][NextSave]_vars

(***************************************************************************)
(* Properties of the crawler.                                              *)
(***************************************************************************)
Min(a, b) == IF a < b THEN a ELSE b

ProcessUp == pc \in {"cycle", "site", "crawl", "end"}

\* a step of crawl_site's dead check for the next site of the for loop
CheckStep == pc = "site" /\ idx <= Len(Sites) /\ ev' \in {"skip_dead", "begin", "expired"}

\* a step that fetches the URL at the head of the frontier
FetchStep == pc = "crawl" /\ ev' \in {"failed", "marked_dead", "write_error", "saved"}

\* a site with max_failures terminal fetch errors in a row is in the ledger, in
\* memory and on disk, until the end of its retry window, and its crawl is over
C1_Marked ==
    \A s \in SiteSet :
        errRun[s] >= SiteConf(s).max_failures =>
            /\ s \in DOMAIN deadFile
            /\ deadFile[s].until =
                   IsoFormat(FromIsoFormat(deadFile[s].marked_at) + SiteConf(s).retry)
            /\ ProcessUp => (s \in DOMAIN deadlist /\ deadlist[s].until = FromIsoFormat(deadFile[s].until))
            /\ ~(pc = "crawl" /\ Sites[idx] = s)
            /\ pc # "crawl" => to_visit = <<>>

\* the check of a site whose entry is in force skips the site: no crawl starts
C1_SkipAtCheck ==
    CheckStep =>
        LET s == Sites[idx]
        IN  (s \in DOMAIN deadlist /\ now < deadlist[s].until) =>
                (ev' = "skip_dead" /\ pc' = "site" /\ idx' = idx + 1 /\ to_visit' = <<>>)

\* the same for every site whose entry was in force when the cycle started
C1_SkipAtStart ==
    CheckStep =>
        (Sites[idx] \in liveAtStart =>
            (ev' = "skip_dead" /\ pc' = "site" /\ idx' = idx + 1 /\ to_visit' = <<>>))

\* C1, as amended: after max_failures terminal fetch errors in a row the site is
\* marked dead in the ledger and its crawl stops for the cycle; in a later cycle
\* the site is skipped, with no fetch, when its own dead check runs before the
\* entry's until time
C1_Theorem == [][C1_Marked' /\ C1_SkipAtCheck]_vars

\* C1, as stated: the site is skipped in every cycle that starts before the
\* entry's until time
C1_Original == [][C1_Marked' /\ C1_SkipAtStart]_vars

\* a site marked dead after two errors in a row has just been skipped
C1_Witness ==
    /\ ev = "skip_dead"
    /\ idx > 1
    /\ errRun[Sites[idx - 1]] >= SiteConf(Sites[idx - 1]).max_failures
    /\ SiteConf(Sites[idx - 1]).max_failures >= 2

\* C2: the dead check of a site whose entry has until <= now answers false (the
\* crawl starts) and leaves the entry neither in memory nor in dead_sites.json,
\* and the entries of the other sites are as they were
C2_Theorem ==
    [][CheckStep =>
        LET s == Sites[idx]
        IN  (s \in DOMAIN deadlist /\ deadlist[s].until <= now) =>
                /\ pc' = "crawl" /\ ev' # "skip_dead"
                /\ DOMAIN deadlist' = DOMAIN deadlist \ {s}
                /\ DOMAIN deadFile' = DOMAIN deadFile \ {s}
                /\ \A k \in DOMAIN deadlist' : deadlist'[k] = deadlist[k]
                /\ \A k \in DOMAIN deadFile' : deadFile'[k] = deadFile[k]]_vars

\* an expired entry has just been removed while another site's entry stays
C2_Witness ==
    /\ ev = "expired"
    /\ DOMAIN deadlist # {}
    /\ DOMAIN deadFile = DOMAIN deadlist

\* the snapshot lists on disk: bounded for live pages, newest first, and no
\* snapshot file is left in storage that no page lists
C3_Lists ==
    \A s \in SiteSet :
        /\ \A u \in Urls :
              LET files == metaFile[s][u].files
              IN  /\ ~metaFile[s][u].archived => Len(files) <= SiteConf(s).max_versions
                  /\ \A i, j \in DOMAIN files : i < j => files[i][1] >= files[j][1]
        /\ store[s] \subseteq UNION {Range(metaFile[s][u].files) : u \in Urls}

\* a save keeps the new snapshot and the most recent old ones, in order, and
\* what it drops from the list is no longer in storage
C3_Save ==
    (pc = "crawl" /\ ev' = "saved") =>
        LET s == Sites[idx]
            u == Head(to_visit)[1]
            old == metaFile[s][u].files
            all == <<SafeFilename(now', NormalizeUrl(u))>> \o old
            kept == metaFile'[s][u].files
        IN  /\ kept = SubSeq(all, 1, Min(Len(all), SiteConf(s).max_versions))
            /\ \A f \in Range(all) \ Range(kept) : f \notin store'[s]

C4_Claim ==
    [][FetchStep =>
        LET s == Sites[idx]
            u == Head(to_visit)[1]
        IN  metaFile[s][u].archived =>
                \A f \in Range(metaFile[s][u].files) :
                    f \in Range(metaFile'[s][u].files) /\ f \in store'[s]]_vars

\* a write of the flag
FlagStep == ev' \in {"flag", "interrupt"} /\ pc' # pc

\* sites of the cycle under way are still to be processed
SitesPending == pc \in {"site", "crawl"} /\ idx <= Len(Sites)

\* C7, as amended: the write of the flag by main_loop happens when every site of
\* the cycle has been processed; the interrupt handler writes it as well
C7_Theorem == [][(FlagStep /\ ev' = "flag") => ~SitesPending]_vars

\* C7, as stated: no write of the flag happens while sites remain unprocessed
C7_Original == [][FlagStep => ~SitesPending]_vars

\* main_loop has just written the flag at the end of a cycle
C7_Witness == ev = "flag" /\ pc = "end" /\ flagFile = now /\ idx = Len(Sites) + 1

\* C10, as stated: a site whose fetches all fail is marked dead by the time
\* max_failures of them have failed
C10_Claim == \A s \in SiteSet : downRun[s] < SiteConf(s).max_failures

(***************************************************************************)
(* Properties of the watch engine.                                         *)
(***************************************************************************)
\* a step that is one iteration of watch_loop
PollStep == wpc = "watch" /\ ev' = "poll" /\ now' = now + 1

\* the keywords of the source that are not in the last-observed set
Added == Range(LoadKeywords(kwFile)) \ last_keywords_set

\* the hits of keyword k: the files of the index that hold it, once each
HitsOf(k, index, t) ==
    LET with == SelectSeq(index, LAMBDA f : k \in f.words)
    IN  [i \in DOMAIN with |-> [file |-> with[i].file, found_at |-> t]]

\* C5: a poll that finds keywords of the source missing from the last-observed
\* set, the marker not having advanced, runs exactly one search, over the added
\* keywords only, and leaves the entry of every other keyword as it was
C5_Theorem ==
    [][PollStep =>
        ((Added # {} /\ ~MarkerAdvanced(flagFile, last_run_ts)) =>
            /\ Len(searches') = 1
            /\ searches'[1].trigger = "new-keywords"
            /\ Range(searches'[1].keywords) = Added
            /\ Len(searches'[1].keywords) = Cardinality(Added)
            /\ DOMAIN results'.keywords = DOMAIN results.keywords \cup Added
            /\ \A k \in Added : results'.keywords[k].last_searched_at = now'
            /\ \A k \in DOMAIN results.keywords \ Added :
                   results'.keywords[k] = results.keywords[k])]_vars

\* a poll has searched one new keyword and kept the older entry of another
C5_Witness ==
    /\ ev = "poll"
    /\ Len(searches) = 1
    /\ searches[1].trigger = "new-keywords"
    /\ Len(searches[1].keywords) = 1
    /\ \E k \in DOMAIN results.keywords \ Range(searches[1].keywords) :
           /\ results.keywords[k].last_searched_at < now
           /\ results.keywords[k].hits # <<>>

\* C6: a poll that finds the marker newer than the last-observed value searches
\* the whole current keyword set, replaces the entry of each of its keywords,
\* by an empty hit list when nothing matches, and records the marker's time
C6_Theorem ==
    [][PollStep =>
        (MarkerAdvanced(flagFile, last_run_ts) =>
            LET current == Range(LoadKeywords(kwFile))
            IN  /\ last_run_ts' = flagFile
                /\ current # {} =>
                       /\ searches' # <<>>
                       /\ searches'[Len(searches')].trigger = "crawler-run-complete"
                       /\ Range(searches'[Len(searches')].keywords) = current
                /\ \A k \in current :
                       /\ k \in DOMAIN results'.keywords
                       /\ results'.keywords[k] =
                              [last_searched_at |-> now',
                               hits |-> HitsOf(k, corpus, now')])]_vars

\* a full search has replaced an entry by hits and another by an empty list
C6_Witness ==
    /\ ev = "poll"
    /\ searches # <<>>
    /\ searches[Len(searches)].trigger = "crawler-run-complete"
    /\ last_run_ts = flagFile
    /\ \E k1, k2 \in Range(searches[Len(searches)].keywords) :
           /\ results.keywords[k1].hits = <<>>
           /\ results.keywords[k2].hits # <<>>
           /\ results.keywords[k1].last_searched_at = now

(***************************************************************************)
(* Properties of the writes of the shared files.                           *)
(***************************************************************************)
\* the file is missing or holds the whole text of one document
Whole(path) ==
    disk[path].exists => \E v \in 1..MaxWrites : disk[path].text = Dumps(v)

\* C8, as stated: metadata.json and dead_sites.json are never seen empty or
\* partially written, whenever they are read and whenever the crawler is killed
C8_Claim == Whole("metadata.json") /\ Whole("dead_sites.json")

\* C9: results.json is never empty or partially written, whenever it is read and
\* whenever the watch engine is killed: a step leaves it as it was or replaces
\* it by the whole text of the merged document
C9_Theorem ==
    [][/\ Whole("results.json")'
       /\ disk'["results.json"] # disk["results.json"] =>
              /\ wr["scooper"].pc = "replace"
              /\ disk'["results.json"] = [exists |-> TRUE, text |-> wr["scooper"].text]]_vars

\* the watch engine was killed with half of the temporary file written, and
\* results.json holds the document written before
C9_Witness ==
    /\ wr["scooper"].pc = "idle"
    /\ disk["results.tmp"].exists
    /\ Len(disk["results.tmp"].text) = 1
    /\ disk["results.json"].exists
    /\ disk["results.json"].text # <<>>
    /\ disk["results.json"].text[1].doc < disk["results.tmp"].text[1].doc

(***************************************************************************)
(* The traversal of a site.                                                *)
(***************************************************************************)
\* no frontier entry is deeper than the depth limit of the site
DepthBound ==
    pc = "crawl" =>
        \A i \in DOMAIN to_visit : to_visit[i][2] <= SiteConf(Sites[idx]).max_depth

\* after a fetch that ended in one of the events, below the depth limit, every
\* link of the page is visited or waits in the frontier one level deeper
LinksFollowed(events) ==
    (pc = "crawl" /\ pc' = "crawl" /\ ev' \in events /\ to_visit # <<>>) =>
        LET url == Head(to_visit)[1]
            depth == Head(to_visit)[2]
        IN  depth < SiteConf(Sites[idx]).max_depth =>
                \A l \in PageLinks(url) :
                    \/ l \in visited'
                    \/ \E i \in DOMAIN to_visit' : to_visit'[i] = <<l, depth + 1>>

\* a step of the crawl takes the head of the frontier and keeps the rest; a URL
\* not seen before and not of a skipped extension is requested; the crawl ends
\* only with an empty frontier or a used-up page budget
FrontierServed ==
    (pc = "crawl" /\ ev' # "interrupt") =>
        IF ev' = "done"
        THEN to_visit = <<>> \/ pages_fetched >= SiteConf(Sites[idx]).max_pages
        ELSE /\ to_visit # <<>>
             /\ pc' = "crawl" =>
                    /\ Len(to_visit') >= Len(to_visit) - 1
                    /\ SubSeq(to_visit', 1, Len(to_visit) - 1) = Tail(to_visit)
                    /\ Head(to_visit)[1] \in visited'
             /\ (Head(to_visit)[1] \notin visited /\ ~IsSkipExt(Head(to_visit)[1])) =>
                    ev' \in {"failed", "marked_dead", "write_error", "saved"}

\* C11 (as amended): no URL is ever in the frontier at a depth greater than
\* max_depth, so no page deeper than max_depth is requested; every URL taken
\* from the frontier that was not seen before and has no skipped extension is
\* requested, the crawl stops only when the frontier is empty or the budget or
\* the failure threshold is reached, and every link of a page whose snapshot
\* was stored at a depth below max_depth is visited or enqueued one level deeper.
C11_Theorem == [][DepthBound' /\ FrontierServed /\ LinksFollowed({"saved"})]_vars

\* C11 (as stated): the same, for every page that answered with a normal
\* status, whether or not its snapshot could be stored.
C11_Original ==
    [][DepthBound' /\ FrontierServed /\ LinksFollowed({"saved", "write_error"})]_vars

\* page d1 was stored at depth 1, the depth limit of its site: its link d2 is not
\* enqueued, and d.zip, a link of d0, was skipped
C11_Witness ==
    /\ sitesFile = DeepSite /\ pc = "crawl" /\ ev = "saved"
    /\ meta["d1"].files # <<>> /\ meta["d0"].files # <<>>
    /\ {"d0", "d1", "d.zip"} \subseteq visited
    /\ "d2" \notin visited
    /\ to_visit = <<>>

(***************************************************************************)
(* Properties of fetch_url.                                                *)
(***************************************************************************)
Failed(o) == o \in {"ConnectionError", "Timeout", "HTTPError"}

RECURSIVE Pow2(_)
Pow2(n) == IF n = 0 THEN 1 ELSE 2 * Pow2(n - 1)

\* k delays that start at base_delay and double each time
Backoff(k) == [i \in 1..k |-> fetch.args.base_delay * Pow2(i - 1)]

AllFailed(k) == \A i \in 1..k : Failed(fetch.outcomes[i])

\* the number of attempts that have ended
Ended == Len(fetch.outcomes)

\* C12: a call of fetch_url issues at most `attempts` requests; it returns the
\* response of the first attempt that ends with a status below 400 or an archive
\* code, with no further request; every earlier attempt failed (network error,
\* timeout or another status >= 400) and was followed by a sleep, the sleeps
\* being base_delay, 2*base_delay, 4*base_delay, ...; an error is raised exactly
\* when all `attempts` attempts failed.
C12_Theorem ==
    fetch.pc # "idle" =>
        /\ fetch.requests <= fetch.args.attempts
        /\ Ended <= fetch.args.attempts
        /\ AllFailed(Ended - 1)
        /\ fetch.pc \in {"attempt", "read"} =>
              /\ AllFailed(Ended)
              /\ Ended < fetch.args.attempts
              /\ fetch.attempt = Ended + 1
              /\ fetch.requests = Ended + (IF fetch.pc = "read" THEN 1 ELSE 0)
              /\ fetch.slept = Backoff(Ended)
        /\ fetch.pc = "returned" =>
              /\ fetch.outcomes[Ended] = "response"
              /\ fetch.status < 400 \/ fetch.status \in {404, 410}
              /\ fetch.ret.kind = "return" /\ fetch.ret.status_code = fetch.status
              /\ fetch.requests = Ended
              /\ fetch.slept = Backoff(Ended - 1)
        /\ fetch.pc = "raised" <=> (Ended = fetch.args.attempts /\ AllFailed(Ended))
        /\ fetch.pc = "raised" =>
              /\ fetch.ret.kind = "raise" /\ fetch.ret.exc = fetch.outcomes[Ended]
              /\ fetch.requests = fetch.args.attempts
              /\ fetch.slept = Backoff(fetch.args.attempts - 1)
        /\ (/\ fetch.status >= 400 /\ fetch.status \notin {404, 410}
            /\ Ended > 0 /\ fetch.pc # "read")
              => Failed(fetch.outcomes[Ended])

\* the third attempt returned an archive code after a status 500 and a timeout
C12_Witness ==
    /\ fetch.pc = "returned" /\ fetch.args.attempts = 3 /\ fetch.args.base_delay = 2
    /\ fetch.outcomes = <<"HTTPError", "Timeout", "response">>
    /\ fetch.slept = <<2, 4>>
    /\ fetch.ret.status_code = 410

\* C13: the body fetch_url returns, and the bytes it has read at any time, are at
\* most max_bytes.
C13_Claim == fetch.pc # "idle" => fetch.total <= fetch.args.max_bytes

(***************************************************************************)
(* Snapshot identifiers and the order of the fetches.                      *)
(***************************************************************************)
\* C14: the snapshot identifier of a stored fetch differs from that of every
\* other fetch of the site: when a snapshot is written, no file of that name is
\* in the site's directory and no page record lists it.
C14_Claim ==
    [][(pc = "crawl" /\ ev' = "saved") =>
        LET s == Sites[idx]
            fname == SafeFilename(now', NormalizeUrl(Head(to_visit)[1]))
        IN  /\ fname \notin store[s]
            /\ \A u \in Urls : fname \notin Range(meta[u].files)]_vars

\* C15: the fetch order within a site is determined by the seeds and the
\* responses: every fetch takes the head of the frontier, and after a page is
\* stored the frontier is the rest of it followed by the unseen links of the
\* page in the order of their first occurrence in the page.
C15_Claim ==
    [][(pc = "crawl" /\ ev' = "saved") =>
        LET s == Sites[idx]
            url == Head(to_visit)[1]
            depth == Head(to_visit)[2]
        IN  to_visit' = Tail(to_visit) \o
                (IF depth < SiteConf(s).max_depth
                 THEN Enqueue(FirstOccurrence(url), visited', depth)
                 ELSE <<>>)]_vars

(***************************************************************************)
(* Properties of find_snippets.                                            *)
(***************************************************************************)
\* the 1-based positions where the keyword occurs in the text, whatever the case
Occurrences ==
    {p \in 1..Len(snip.text) :
        /\ p + Len(snip.keyword) - 1 <= Len(snip.text)
        /\ \A j \in 1..Len(snip.keyword) :
              Lower(snip.text[p + j - 1]) = Lower(snip.keyword[j])}

\* the non-overlapping occurrences from position p on, from left to right
RECURSIVE NonOverlapping(_)
NonOverlapping(p) ==
    LET later == {q \in Occurrences : q >= p}
    IN  IF later = {}
        THEN <<>>
        ELSE LET q == CHOOSE x \in later : \A y \in later : x <= y
             IN  <<q>> \o NonOverlapping(q + Len(snip.keyword))

\* the snippet of the occurrence at position p, character by character
Expected(p) ==
    LET last == p + Len(snip.keyword) - 1
        lo == p - Min(snip.chars, p - 1)
        hi == last + Min(snip.chars, Len(snip.text) - last)
    IN  [j \in 1..(hi - lo + 1) |->
            LET q == lo + j - 1
            IN  IF p <= q /\ q <= last THEN Upper(snip.text[q]) ELSE snip.text[q]]

\* C16: find_snippets returns one snippet for each of the first min(5, n)
\* non-overlapping case-insensitive occurrences of the keyword, in order of
\* position; each snippet is the text from min(W, characters available) before
\* the match to min(W, characters available) after it, with the match in upper
\* case and the other characters unchanged; there are never more than 5.
C16_Theorem ==
    snip.called =>
        LET occ == NonOverlapping(1)
        IN  /\ Len(snip.snippets) = Min(5, Len(occ))
            /\ Len(snip.snippets) <= 5
            /\ \A i \in 1..Len(snip.snippets) : snip.snippets[i] = Expected(occ[i])

\* a text with six occurrences, of which the first five are returned, the first
\* cut at the start of the text and the others with a window of one character
C16_Witness ==
    /\ snip.called
    /\ snip.text = <<"a", "A", "a", "a", "A", "a">>
    /\ snip.keyword = <<"a">> /\ snip.chars = 1
    /\ snip.snippets = << <<"A", "A">>, <<"a", "A", "a">>, <<"A", "A", "a">>,
                          <<"a", "A", "A">>, <<"a", "A", "a">> >>

(***************************************************************************)
(* The history log of the results store.                                   *)
(***************************************************************************)
\* the history records of the merges of a step, the latest first
RECURSIVE Records(_, _)
Records(ran, t) ==
    IF ran = <<>>
    THEN <<>>
    ELSE Records(Tail(ran), t) \o
            <<[ts |-> t, trigger |-> Head(ran).trigger,
               updated_keywords |-> Keys(Head(ran).keywords)]>>

\* the history holds at most 100 records, the most recent first
HistoryBounded ==
    /\ Len(results.history) <= 100
    /\ \A i \in 1..(Len(results.history) - 1) :
          results.history[i].ts >= results.history[i + 1].ts

\* C17: after any sequence of merges the history log holds at most 100 records,
\* most recent first; each merge adds exactly one record, with its trigger and
\* the keywords it updated, at the front, and only the oldest records beyond
\* 100 are dropped.
C17_Theorem ==
    [][/\ searches' = <<>> => results'.history = results.history
       /\ searches' # <<>> =>
              LET added == Records(searches', now')
                  all == added \o results.history
              IN  /\ HistoryBounded'
                  /\ results'.history = SubSeq(all, 1, Min(100, Len(all)))]_vars

\* the log is full and two merges of one poll have pushed out the two oldest
\* records, which were written 100 and 99 ticks before the start
C17_Witness ==
    /\ Len(results.history) = 100
    /\ Len(searches) = 2
    /\ results.history[1].trigger = "crawler-run-complete"
    /\ results.history[2].trigger = "new-keywords"
    /\ results.history[100].ts = 0 - 98

(***************************************************************************)
(* Archive codes and the failure counter.                                  *)
(***************************************************************************)
\* a fetch of the crawl ended with an archive code or with a terminal error
FailureStep == pc = "crawl" /\ ev' \in {"failed", "marked_dead"}

\* of these, the fetch that ended with an archive code: no run of terminal
\* errors is under way after it
ArchiveStep == FailureStep /\ errRun'[Sites[idx]] = 0

\* C18: a fetch that returns an archive code sets archived on the page, adds no
\* snapshot and enqueues no links; it and a terminal fetch error add one to the
\* same counter of consecutive failures, which only a response with a normal
\* status resets; the failure that brings the counter to max_failures marks the
\* site dead and ends its crawl, so the counter stays below max_failures.
C18_Theorem ==
    [][/\ pc' = "crawl" => consecutive_failures' < SiteConf(Sites[idx']).max_failures
       /\ (pc = "crawl" /\ ev' \in {"saved", "write_error"}) => consecutive_failures' = 0
       /\ (pc = "crawl" /\ ev' \in {"skip_visited", "skip_ext"}) =>
              consecutive_failures' = consecutive_failures
       /\ FailureStep =>
              LET s == Sites[idx]
              IN  IF consecutive_failures + 1 >= SiteConf(s).max_failures
                  THEN /\ ev' = "marked_dead"
                       /\ s \in DOMAIN deadlist' /\ s \in DOMAIN deadFile'
                       /\ deadlist'[s].until = now' + SiteConf(s).retry
                       /\ pc' = "site" /\ idx' = idx + 1
                  ELSE /\ ev' = "failed"
                       /\ pc' = "crawl"
                       /\ consecutive_failures' = consecutive_failures + 1
       /\ ArchiveStep =>
              LET s == Sites[idx]
                  url == Head(to_visit)[1]
              IN  /\ metaFile'[s][url].archived
                  /\ metaFile'[s][url].files = meta[url].files
                  /\ store' = store
                  /\ pc' = "crawl" => to_visit' = Tail(to_visit)]_vars

\* site A (max_failures 2) was marked dead by an archive code followed by a
\* terminal fetch error
C18_Witness ==
    /\ ev = "marked_dead" /\ pc = "site" /\ idx > 1
    /\ Sites[idx - 1] = "A" /\ "A" \in DOMAIN deadFile
    /\ errRun["A"] = 1
    /\ \E u \in SiteUrls("A") : metaFile["A"][u].archived /\ metaFile["A"][u].files = <<>>

(***************************************************************************)
(* The dead flag of the watch engine.                                      *)
(***************************************************************************)
\* C19: the dead flag of a hit is true if and only if the ledger holds an entry
\* for the site of the page with now < until, and it equals what is_site_dead of
\* the crawl engine reports for that site at the same time.
C19_Claim ==
    deadFlag.annotated =>
        LET key == SiteKey(deadFlag.site_conf)
        IN  /\ deadFlag.is_dead <=>
                   /\ key \in DOMAIN deadFlag.ledger
                   /\ deadFlag.clock < FromIsoFormat(deadFlag.ledger[key].until)
            /\ deadFlag.is_dead <=> deadFlag.reported

(***************************************************************************)
(* Concurrent updates of the ledger.                                       *)
(***************************************************************************)
\* C20: no update of the ledger is lost: the ledger file holds every entry that
\* one of the two crawlers added by mark_site_dead and that has not expired.
C20_Claim ==
    \A m \in procs.marked :
        procs.time < m.until =>
            /\ m.site \in DOMAIN procs.ledger
            /\ FromIsoFormat(procs.ledger[m.site].until) >= m.until

(***************************************************************************)
(* The run-complete marker and the full re-scan.                           *)
(***************************************************************************)
\* the searches of the step that the marker triggered
MarkerSearches(ran) == SelectSeq(ran, LAMBDA r : r.trigger = "crawler-run-complete")

\* the marker exists and the watch loop has not acted on a marker, or only on an
\* older one
Newer == flagFile # NoFile /\ (last_run_ts = None \/ flagFile > last_run_ts)

\* C21: a crawler-run-complete search runs only in a poll that finds the marker
\* strictly newer than the last value acted on (or finds it for the first time),
\* at most once in that poll, and the poll records the marker's time; no other
\* step changes the recorded time, which never runs ahead of the marker: so a
\* marker value that was acted on triggers no second search.
C21_Theorem ==
    [][/\ MarkerSearches(searches') # <<>> => (PollStep /\ Newer)
       /\ Len(MarkerSearches(searches')) <= 1
       /\ (PollStep /\ Newer) =>
              /\ last_run_ts' = flagFile
              /\ Range(LoadKeywords(kwFile)) # {} => Len(MarkerSearches(searches')) = 1
       /\ ~(PollStep /\ Newer) => last_run_ts' = last_run_ts
       /\ last_run_ts' # None => (flagFile' # NoFile /\ last_run_ts' <= flagFile')]_vars

\* the second write of the marker has triggered the second full search, one
\* poll after the first
C21_Witness ==
    /\ ev = "poll"
    /\ Len(MarkerSearches(searches)) = 1
    /\ last_run_ts = flagFile /\ last_run_ts > 0
    /\ Len(MarkerSearches(results.history)) = 2

(***************************************************************************)
(* Repeated keywords.                                                      *)
(***************************************************************************)
\* no element occurs twice in the sequence
Distinct(q) == \A i, j \in DOMAIN q : i # j => q[i] # q[j]

\* C22: the keyword list of every search has no duplicates, and the hit list of
\* a keyword in the results store never holds two hits for the same snapshot
\* file.
C22_Claim ==
    /\ \A i \in DOMAIN searches : Distinct(searches[i].keywords)
    /\ \A k \in DOMAIN results.keywords :
          LET hits == results.keywords[k].hits
          IN  Distinct([i \in DOMAIN hits |-> hits[i].file])

(***************************************************************************)
(* The metadata of a site over a crawl.                                    *)
(***************************************************************************)
\* C23: a crawl starts from the metadata on disk and every save writes it back
\* with the record of the fetched URL only changed: no step changes the record
\* of a URL other than the one it fetches, nor the metadata of another site, so
\* when the crawl ends, by an empty frontier, the page budget or dead-marking,
\* the record of every URL it did not fetch is what it was before the crawl.
C23_Theorem ==
    [][/\ \A s \in SiteSet, u \in Urls :
              metaFile'[s][u] # metaFile[s][u] =>
                  (FetchStep /\ s = Sites[idx] /\ u = Head(to_visit)[1])
       /\ (CheckStep /\ pc' = "crawl") => meta' = metaFile[Sites[idx]]
       /\ pc' = "crawl" => metaFile'[Sites[idx']] = meta']_vars

\* the site was marked dead at the first fetch of its second crawl: the record
\* of a page stored in the first crawl and not fetched in the second is intact
C23_Witness ==
    /\ ev = "marked_dead" /\ idx > 1
    /\ \E u \in SiteUrls(Sites[idx - 1]) :
          /\ u # SiteConf(Sites[idx - 1]).url
          /\ metaFile[Sites[idx - 1]][u].files # <<>>
          /\ metaFile[Sites[idx - 1]][u].files[1][1] < now

(***************************************************************************)
(* The end of a crawl.                                                     *)
(***************************************************************************)
\* an iteration of the loop takes one entry from the frontier; entries are added
\* only by the iteration that saves a page, and the budget bounds the saves
LoopProgress ==
    (pc = "crawl" /\ pc' = "crawl") =>
        /\ to_visit # <<>>
        /\ pages_fetched < SiteConf(Sites[idx]).max_pages
        /\ pages_fetched' <= SiteConf(Sites[idx]).max_pages
        /\ IF ev' = "saved"
           THEN /\ pages_fetched' = pages_fetched + 1
                /\ Len(to_visit') >= Len(to_visit) - 1
           ELSE /\ pages_fetched' = pages_fetched
                /\ to_visit' = Tail(to_visit)

\* the crawl is left with the frontier empty, the budget used up, the site
\* marked dead, or by an interrupt
LoopExit ==
    (pc = "crawl" /\ pc' # "crawl") =>
        \/ ev' = "done" /\ (to_visit = <<>> \/
                             pages_fetched >= SiteConf(Sites[idx]).max_pages)
        \/ ev' = "marked_dead" /\ Sites[idx] \in DOMAIN deadlist'
        \/ ev' = "interrupt"

\* C24: every crawl of a site ends: each iteration of the loop removes the head
\* of the frontier, only the iteration that saves a page adds entries, at most
\* max_pages pages are saved in a crawl, and the crawl is left when the
\* frontier is empty, the budget is used up or the site is marked dead.
C24_Theorem ==
    /\ [][LoopProgress /\ LoopExit]_vars
    /\ (pc = "crawl") ~> (pc # "crawl")

\* the page that uses up the budget has been saved while the frontier still has
\* an entry: the loop is over
C24_Witness ==
    /\ pc = "crawl" /\ ev = "saved"
    /\ pages_fetched = SiteConf(Sites[idx]).max_pages
    /\ to_visit # <<>>
    /\ ~LoopGoesOn(to_visit, pages_fetched, SiteConf(Sites[idx]).max_pages)

(***************************************************************************)
(* The snapshots the metadata lists.                                       *)
(***************************************************************************)
\* C25: at every statement of the save of a page, and after an interrupt at any
\* of them, every snapshot listed in the metadata file is a file of the site
\* directory.
C25_Claim ==
    saving.pc # "off" => Range(saving.disk_meta.files) \subseteq saving.dir

(***************************************************************************)
(* The creation of ledger entries.                                         *)
(***************************************************************************)
\* the ledger file gets an entry for site s, or another one than it had
EntryWritten(s) ==
    /\ s \in DOMAIN deadFile'
    /\ s \notin DOMAIN deadFile \/ deadFile'[s] # deadFile[s]

\* the counter of the crawl under way after a step of the loop: one more after
\* a terminal error or an archive code, zero after a response with a normal
\* status, unchanged after a URL that was not requested
CounterAfter ==
    IF ev' = "failed" THEN consecutive_failures + 1
    ELSE IF ev' \in {"saved", "write_error"} THEN 0
    ELSE consecutive_failures

SearchedAsNew(k) ==
    \E i \in DOMAIN searches' :
        searches'[i].trigger = "new-keywords" /\ k \in Range(searches'[i].keywords)

\* C27: the last-observed keyword set is changed only by a poll that finds a
\* keyword of the source missing from it, and then becomes the keyword set of
\* the source; a poll runs a new-keywords search for a keyword exactly when the
\* keyword is in the source and not in the last-observed set. So a keyword that
\* was removed and added back is not searched again if no poll in between found
\* another keyword added (it never left the last-observed set), and is searched
\* again if one did. No step removes an entry of the results store.
C27_Theorem ==
    [][/\ last_keywords_set' # last_keywords_set =>
              (ev' = "watch" \/ (PollStep /\ Added # {}))
       /\ PollStep =>
              /\ last_keywords_set' =
                     IF Added # {} THEN Range(LoadKeywords(kwFile)) ELSE last_keywords_set
              /\ \A k \in Keywords : SearchedAsNew(k) <=> k \in Added
       /\ DOMAIN results.keywords \subseteq DOMAIN results'.keywords]_vars

\* k1 was searched at the start, k2 was added while k1 was absent, and the poll
\* after k1 came back has searched k1 as a new keyword
C27_Witness ==
    /\ ev = "poll"
    /\ Len(results.history) = 3
    /\ results.history[1].trigger = "new-keywords"
    /\ results.history[1].updated_keywords = <<"k1">>
    /\ results.history[2].trigger = "new-keywords"
    /\ results.history[2].updated_keywords = <<"k2">>
    /\ results.history[3].trigger = "manual-run"
    /\ results.history[3].updated_keywords = <<"k1">>
    /\ {"k1", "k2"} \subseteq DOMAIN results.keywords

=============================================================================
